---------------------------- MODULE Spec2Model ----------------------------
(***************************************************************************)
(* Earthquake data pipeline: extraction of a feed into a dated CSV batch   *)
(* file (process_earthquake_data_starter.py), staging load of that file    *)
(* into the raw table public.earthquake (load_csv_starter.py) and the      *)
(* windowed transform into raw.stage_earthquake                            *)
(* (transform_earthquake_starter.py).                                      *)
(*                                                                         *)
(* Tables are bags (multisets) of rows: neither table has a key.  Text is  *)
(* a sequence of one-character strings so that POSITION, SUBSTRING and     *)
(* TRIM can be computed character by character.  Timestamps are whole      *)
(* seconds since the epoch and dates are whole days since 1970-01-01; the  *)
(* session time zone is taken to be UTC.                                   *)
(***************************************************************************)
EXTENDS Integers, Sequences, FiniteSets, Bags, TLC

VARIABLES
    files,   \* file system: path -> [exists, header, rows]
    raw,     \* committed rows of public.earthquake (bag)
    fact,    \* committed rows of raw.stage_earthquake (bag)
    pc,      \* per connection: position of the run in main()
    op,      \* per connection: the run's kind and parameters
    err,     \* per connection: the step whose exception main() caught
    txn,     \* per connection: rows written but not committed
    pre,     \* per connection: the target table when the run connected
    last     \* the run (of any stage) that finished most recently

vars == <<files, raw, fact, pc, op, err, txn, pre, last>>

-----------------------------------------------------------------------------
(* Bounds of the model *)

\* Longest feed response (number of features).
MaxFeatures == 2

\* Longest place text explored by the derivation specification.
MaxLen == 6

-----------------------------------------------------------------------------
(* Generic helpers *)

Range(s) == { s[i] : i \in DOMAIN s }

SeqToBag(s) == [ x \in Range(s) |-> Cardinality({ i \in DOMAIN s : s[i] = x }) ]

\* The rows of bag B that lie in the set keep, with their multiplicities.
BagFilter(B, keep) == [ x \in DOMAIN B \cap keep |-> B[x] ]

\* The bag of f[x] for the rows x of B; f is a function on the rows of B.
BagMap(B, f) ==
    [ y \in { f[x] : x \in DOMAIN B } |->
        LET src == { x \in DOMAIN B : f[x] = y }
            sum[S \in SUBSET src] ==
                IF S = {} THEN 0
                ELSE LET x == CHOOSE z \in S : TRUE IN B[x] + sum[S \ {x}]
        IN sum[src] ]

SeqsUpTo(S, n) == UNION { [1..k -> S] : k \in 0..n }

-----------------------------------------------------------------------------
(* SQL expressions of transform_earthquake, computed as PostgreSQL does *)

\* The token searched for in place.
OfToken == <<"o", "f", " ">>

\* Position, were it to report the last occurrence instead of the first.
Position_LastOccurrence(sub, s) ==
    LET hits == { i \in 1..(Len(s) - Len(sub) + 1) :
                    SubSeq(s, i, i + Len(sub) - 1) = sub }
    IN IF hits = {} THEN 0
       ELSE CHOOSE i \in hits : \A j \in hits : j <= i

\* POSITION(sub IN s): 1-based index of the first occurrence, 0 when absent.
Position(sub, s) ==
    LET hits == { i \in 1..(Len(s) - Len(sub) + 1) :
                    SubSeq(s, i, i + Len(sub) - 1) = sub }
    IN IF hits = {} THEN 0
       ELSE CHOOSE i \in hits : \A j \in hits : i <= j

\* SUBSTRING(s FROM n): the characters from index n to the end.
SubstringFrom(s, n) ==
    LET from == IF n < 1 THEN 1 ELSE n
    IN IF from > Len(s) THEN <<>> ELSE SubSeq(s, from, Len(s))

\* TRIM(s): both ends stripped of the space character, and only of it.
Trim(s) ==
    LET keep == { i \in DOMAIN s : s[i] # " " }
    IN IF keep = {} THEN <<>>
       ELSE LET lo == CHOOSE i \in keep : \A j \in keep : i <= j
                hi == CHOOSE i \in keep : \A j \in keep : j <= i
            IN SubSeq(s, lo, hi)

\* TRIM(SUBSTRING(place FROM POSITION('of ' IN place) + 3))
CleanPlace(place) == Trim(SubstringFrom(place, Position(OfToken, place) + 3))

\* a / b on integer columns: the quotient truncated toward zero.
SqlDiv(a, b) == IF a >= 0 THEN a \div b ELSE -((-a) \div b)

\* to_timestamp(time / 1000): whole seconds since the epoch.
ToTimestamp(time) == SqlDiv(time, 1000)

\* cast(ts AS date): the day holding ts, as days since 1970-01-01.
CastDate(ts) == ts \div 86400

\* One row of the SELECT list.
DeriveRow(r) ==
    [ ts        |-> ToTimestamp(r.time),
      dt        |-> CastDate(ToTimestamp(r.time)),
      place     |-> CleanPlace(r.place),
      magnitude |-> r.magnitude,
      longitude |-> r.longitude,
      latitude  |-> r.latitude,
      depth     |-> r.depth ]

\* x BETWEEN lo AND hi
Between(x, lo, hi) == lo <= x /\ x <= hi

\* InWindow, were the window's first day left out of the selection.
InWindow_ExclusiveStart(r, s, e) ==
    LET d == CastDate(ToTimestamp(r.time)) IN s < d /\ d <= e

\* WHERE cast(to_timestamp(time / 1000) AS date) BETWEEN %s AND %s
InWindow(r, s, e) == Between(CastDate(ToTimestamp(r.time)), s, e)

\* SelectDerived, were the statement INSERT ... SELECT DISTINCT.
SelectDerived_Distinct(t, s, e) ==
    LET selected == BagFilter(t, { r \in DOMAIN t : InWindow(r, s, e) })
    IN SetToBag({ DeriveRow(r) : r \in DOMAIN selected })

\* The rows the INSERT ... SELECT adds for the window, read from table t.
SelectDerived(t, s, e) ==
    LET selected == BagFilter(t, { r \in DOMAIN t : InWindow(r, s, e) })
    IN BagMap(selected, [ r \in DOMAIN selected |-> DeriveRow(r) ])

\* FactAfterDelete, were the DELETE written without its WHERE clause.
FactAfterDelete_WholeTable(t, s, e) == EmptyBag

\* FactAfterDelete, were the window's last day left out of the delete.
FactAfterDelete_ExclusiveEnd(t, s, e) ==
    BagFilter(t, { f \in DOMAIN t : ~(s <= f.dt /\ f.dt < e) })

\* DELETE FROM raw.stage_earthquake WHERE dt BETWEEN %s AND %s
FactAfterDelete(t, s, e) ==
    BagFilter(t, { f \in DOMAIN t : ~Between(f.dt, s, e) })

\* RawAfterDelete, were the delete to match no row.
RawAfterDelete_KeepsAll(t, path) == t

\* DELETE FROM earthquake WHERE filename=%s
RawAfterDelete(t, path) ==
    BagFilter(t, { r \in DOMAIN t : r.filename # path })

-----------------------------------------------------------------------------
(* The batch file: pandas' to_csv and PostgreSQL's COPY ... CSV HEADER *)

\* The keys of the dictionary built for each feature, in insertion order.
Columns ==
    <<"time", "place", "magnitude", "longitude", "latitude", "depth", "file_name">>

\* rf"...\earthquake_{date}.csv"
FileName(date) == <<"earthquake_", date, ".csv">>

\* The path hard-coded in the loader's main().
csv_file_path == FileName("2026_01_16")

\* The dictionary built from one feature; its fields are read in this order.
WellFormed(feature) ==
    /\ "time" \in DOMAIN feature.properties
    /\ "place" \in DOMAIN feature.properties
    /\ "mag" \in DOMAIN feature.properties
    /\ Len(feature.geometry.coordinates) >= 3

\* Earthquake, were the file's base name stamped in place of its path.
Earthquake_StampsBaseName(feature, filename) ==
    [ time      |-> feature.properties.time,
      place     |-> feature.properties.place,
      magnitude |-> feature.properties.mag,
      longitude |-> feature.geometry.coordinates[1],
      latitude  |-> feature.geometry.coordinates[2],
      depth     |-> feature.geometry.coordinates[3],
      file_name |-> Tail(filename) ]

\* Earthquake, were longitude and latitude read from each other's index.
Earthquake_SwapsCoordinates(feature, filename) ==
    [ time      |-> feature.properties.time,
      place     |-> feature.properties.place,
      magnitude |-> feature.properties.mag,
      longitude |-> feature.geometry.coordinates[2],
      latitude  |-> feature.geometry.coordinates[1],
      depth     |-> feature.geometry.coordinates[3],
      file_name |-> filename ]

Earthquake(feature, filename) ==
    [ time      |-> feature.properties.time,
      place     |-> feature.properties.place,
      magnitude |-> feature.properties.mag,
      longitude |-> feature.geometry.coordinates[1],
      latitude  |-> feature.geometry.coordinates[2],
      depth     |-> feature.geometry.coordinates[3],
      file_name |-> filename ]

\* pd.DataFrame(earthquakes): the columns are those of the dictionaries, so
\* a frame built from an empty list has no columns at all.
DataFrame(earthquakes) ==
    [ columns |-> IF earthquakes = <<>> THEN <<>> ELSE Columns,
      rows    |-> earthquakes ]

\* df.to_csv(filename, index=False): one line of column names (an empty
\* line when there are none), then one line per row, cells in column order.
ToCsv(df) ==
    [ exists |-> TRUE,
      header |-> df.columns,
      rows   |-> [ i \in DOMAIN df.rows |->
                    <<df.rows[i].time, df.rows[i].place, df.rows[i].magnitude,
                      df.rows[i].longitude, df.rows[i].latitude,
                      df.rows[i].depth, df.rows[i].file_name>> ] ]

NoFile == [ exists |-> FALSE, header |-> <<>>, rows |-> <<>> ]

\* os.remove(filename)
Remove(file) == NoFile

\* to_csv opens the path for writing: the file holds the frame and nothing
\* of what the path held before.
WriteCsv(file, df) == ToCsv(df)

\* Replaced, were the old file kept and the frame's rows appended to it.
Replaced_Appends(old, df) ==
    IF old.exists
    THEN [ old EXCEPT !.rows = old.rows \o ToCsv(df).rows ]
    ELSE ToCsv(df)

\* if os.path.exists(filename): os.remove(filename); df.to_csv(filename)
Replaced(old, df) ==
    WriteCsv(IF old.exists THEN Remove(old) ELSE old, df)

\* CopyRows, were the first data line taken for a second header line.
CopyRows_SkipsFirstRow(file) ==
    [ i \in 1..(Len(file.rows) - 1) |->
        [ time      |-> file.rows[i + 1][1],
          place     |-> file.rows[i + 1][2],
          magnitude |-> file.rows[i + 1][3],
          longitude |-> file.rows[i + 1][4],
          latitude  |-> file.rows[i + 1][5],
          depth     |-> file.rows[i + 1][6],
          filename  |-> file.rows[i + 1][7] ] ]

\* COPY earthquake FROM STDIN DELIMITER ',' CSV HEADER: the first line is
\* discarded unread; every other line fills the table's columns by position.
CopyRows(file) ==
    [ i \in DOMAIN file.rows |->
        [ time      |-> file.rows[i][1],
          place     |-> file.rows[i][2],
          magnitude |-> file.rows[i][3],
          longitude |-> file.rows[i][4],
          latitude  |-> file.rows[i][5],
          depth     |-> file.rows[i][6],
          filename  |-> file.rows[i][7] ] ]

-----------------------------------------------------------------------------
(* The inputs the model draws from *)

Feature(time, place, coordinates) ==
    [ properties |-> [ time |-> time, place |-> place, mag |-> 4 ],
      geometry   |-> [ coordinates |-> coordinates ] ]

\* Two well-formed features on different days, and one whose coordinates
\* lack the depth.
FeedItems ==
    { Feature(1500, <<"5", " ", "o", "f", " ", "A">>, <<10, 20, 30>>),
      Feature(86400000, <<"B", "a", "y">>, <<11, 21, 31>>),
      Feature(1500, <<"C">>, <<12, 22>>) }

\* Feed responses: the loop over the features stops at the first one that
\* is not well formed, so nothing is drawn after it.
Feeds ==
    { f \in SeqsUpTo(FeedItems, MaxFeatures) :
        \A i \in DOMAIN f : i < Len(f) => WellFormed(f[i]) }

\* Capture dates of the extraction: the day whose file the loader reads.
CaptureDates == { "2026_01_16" }

Paths == { FileName(d) : d \in CaptureDates }

\* A row left in the raw table by the load of an earlier day's batch.
EarlierRow ==
    [ time |-> 86400000, place |-> <<"o", "f", " ", "D">>, magnitude |-> 5,
      longitude |-> 13, latitude |-> 23, depth |-> 33,
      filename |-> FileName("2026_01_15") ]

\* Days the transform's window bounds are drawn from.
Days == { 0, 1 }

Conns == { 1, 2 }

\* alone: no other connection has been open at any time of the run.
NoOp == [ kind |-> "none", path |-> <<>>, s |-> 0, e |-> 0, alone |-> TRUE ]

LoadOp(path) ==
    [ kind |-> "load", path |-> path, s |-> 0, e |-> 0, alone |-> TRUE ]

TransformOp(s, e) ==
    [ kind |-> "transform", path |-> <<>>, s |-> s, e |-> e, alone |-> TRUE ]

\* A finished run: its stage, its parameters, how it ended and, for an
\* extraction that wrote its file, the features it was given.  A database
\* run that failed is recorded by its stage alone.
Finished(o, outcome, features) ==
    [ kind |-> o.kind, path |-> o.path, s |-> o.s, e |-> o.e,
      outcome |-> outcome, features |-> features,
      status |-> 0, prior |-> NoFile ]

NoRun == Finished(NoOp, "none", <<>>)

ExtractOp(path) == [ kind |-> "extract", path |-> path, s |-> 0, e |-> 0 ]

\* A finished extraction: also the response's status code and, when it wrote
\* its file, what was at the path before (kept until the next run starts).
Extracted(path, status, outcome, features, prior) ==
    [ Finished(ExtractOp(path), outcome, features)
        EXCEPT !.status = status, !.prior = prior ]

Forget(run) == [ run EXCEPT !.prior = NoFile ]

FailedOp(kind) == [ kind |-> kind, path |-> <<>>, s |-> 0, e |-> 0 ]

Idle ==
    /\ pc = [ c \in Conns |-> "idle" ]
    /\ op = [ c \in Conns |-> NoOp ]
    /\ err = [ c \in Conns |-> "none" ]
    /\ txn = [ c \in Conns |-> EmptyBag ]
    /\ pre = [ c \in Conns |-> EmptyBag ]
    /\ last = NoRun

Init ==
    /\ files = [ p \in Paths |-> NoFile ]
    /\ raw \in { EmptyBag, SetToBag({EarlierRow}) }
    /\ fact = EmptyBag
    /\ Idle

-----------------------------------------------------------------------------
(* process_earthquake_data *)

\* One run of the extraction.  status and isJson are the response's status
\* code and whether its body parses as JSON; features is data['features'].
process_earthquake_data(date, status, isJson, features) ==
    LET filename == FileName(date)
        earthquakes == [ i \in DOMAIN features |-> Earthquake(features[i], filename) ]
    IN /\ \A c \in Conns : pc[c] = "idle"
       /\ \/ \* print(response.json()) raises before the status is looked at
             /\ ~isJson
             /\ features = <<>>
             /\ last' = Extracted(filename, status, "raised", <<>>, NoFile)
             /\ UNCHANGED files
          \/ \* the else branch: a message is printed and the call returns
             /\ isJson /\ status # 200
             /\ features = <<>>
             /\ last' = Extracted(filename, status, "returned", <<>>, NoFile)
             /\ UNCHANGED files
          \/ \* a feature without 'mag' or with fewer than 3 coordinates raises
             \* in the loop, before the file is touched
             /\ isJson /\ status = 200
             /\ \E i \in DOMAIN features : ~WellFormed(features[i])
             /\ last' = Extracted(filename, status, "raised", <<>>, NoFile)
             /\ UNCHANGED files
          \/ \* os.remove when the file exists, then df.to_csv
             /\ isJson /\ status = 200
             /\ \A i \in DOMAIN features : WellFormed(features[i])
             /\ files' = [ files EXCEPT ![filename] =
                              Replaced(files[filename], DataFrame(earthquakes)) ]
             /\ last' = Extracted(filename, status, "written", features,
                                  files[filename])
       /\ UNCHANGED <<raw, fact, pc, op, err, txn, pre>>

Extract ==
    \E date \in CaptureDates, status \in { 200, 503 }, isJson \in BOOLEAN,
       features \in Feeds :
        process_earthquake_data(date, status, isJson, features)

-----------------------------------------------------------------------------
(* load_csv_starter.py *)

\* Prefixes of the rows a COPY may have written when it fails.
Prefixes(rows) == { SeqToBag(SubSeq(rows, 1, n)) : n \in 0..Len(rows) }

\* The operations under way once connection c has started operation o: the
\* runs that are open at that time, c's included, are not alone.
Started(c, o) ==
    LET others == { d \in Conns \ {c} : pc[d] # "idle" }
    IN [ d \in Conns |->
           IF d = c THEN [ o EXCEPT !.alone = (others = {}) ]
           ELSE IF d \in others THEN [ op[d] EXCEPT !.alone = FALSE ]
           ELSE op[d] ]

\* main(): psycopg2.connect, with the path of the file to load.
load_connect(c, path) ==
    /\ pc[c] = "idle"
    /\ pc' = [ pc EXCEPT ![c] = "delete" ]
    /\ op' = Started(c, LoadOp(path))
    /\ pre' = [ pre EXCEPT ![c] = raw ]
    /\ last' = Forget(last)
    /\ UNCHANGED <<files, raw, fact, err, txn>>

\* load_delete_old_records, were the exception of the delete caught inside
\* the function, so that main went on to the insert.
load_delete_old_records_Continues(c) ==
    /\ pc[c] = "delete" /\ op[c].kind = "load"
    /\ \/ /\ raw' = RawAfterDelete(raw, op[c].path)
          /\ UNCHANGED err
       \/ /\ err' = [ err EXCEPT ![c] = "delete" ]
          /\ UNCHANGED raw
    /\ pc' = [ pc EXCEPT ![c] = "insert" ]
    /\ UNCHANGED <<files, fact, op, txn, pre, last>>

\* delete_old_records(conn, csv_file_path): the DELETE and its commit, or an
\* exception that leaves nothing committed.
load_delete_old_records(c) ==
    /\ pc[c] = "delete" /\ op[c].kind = "load"
    /\ \/ /\ raw' = RawAfterDelete(raw, op[c].path)
          /\ pc' = [ pc EXCEPT ![c] = "insert" ]
          /\ UNCHANGED err
       \/ /\ err' = [ err EXCEPT ![c] = "delete" ]
          /\ pc' = [ pc EXCEPT ![c] = "finally" ]
          /\ UNCHANGED raw
    /\ UNCHANGED <<files, fact, op, txn, pre, last>>

\* load_csv_to_postgres(conn, csv_file_path): open() raises when the file is
\* missing; otherwise the COPY and its commit, or an exception that leaves
\* some of the rows written and none committed.
load_csv_to_postgres(c) ==
    /\ pc[c] = "insert" /\ op[c].kind = "load"
    /\ LET file == files[op[c].path]
       IN \/ /\ file.exists
             /\ raw' = raw (+) SeqToBag(CopyRows(file))
             /\ UNCHANGED <<err, txn>>
          \/ /\ file.exists
             /\ \E written \in Prefixes(CopyRows(file)) :
                    txn' = [ txn EXCEPT ![c] = written ]
             /\ err' = [ err EXCEPT ![c] = "insert" ]
             /\ UNCHANGED raw
          \/ /\ ~file.exists
             /\ err' = [ err EXCEPT ![c] = "insert" ]
             /\ UNCHANGED <<raw, txn>>
    /\ pc' = [ pc EXCEPT ![c] = "finally" ]
    /\ UNCHANGED <<files, fact, op, pre, last>>

-----------------------------------------------------------------------------
(* transform_earthquake_starter.py *)

\* main(): psycopg2.connect, with the window's bounds.
transform_connect(c, s, e) ==
    /\ pc[c] = "idle"
    /\ pc' = [ pc EXCEPT ![c] = "delete" ]
    /\ op' = Started(c, TransformOp(s, e))
    /\ pre' = [ pre EXCEPT ![c] = fact ]
    /\ last' = Forget(last)
    /\ UNCHANGED <<files, raw, fact, err, txn>>

\* transform_delete_old_records, were main to go to the insert without
\* calling it.
transform_delete_old_records_Skipped(c) ==
    /\ pc[c] = "delete" /\ op[c].kind = "transform"
    /\ pc' = [ pc EXCEPT ![c] = "insert" ]
    /\ UNCHANGED <<files, raw, fact, op, err, txn, pre, last>>

\* delete_old_records(conn, start_date, end_date)
transform_delete_old_records(c) ==
    /\ pc[c] = "delete" /\ op[c].kind = "transform"
    /\ \/ /\ fact' = FactAfterDelete(fact, op[c].s, op[c].e)
          /\ pc' = [ pc EXCEPT ![c] = "insert" ]
          /\ UNCHANGED err
       \/ /\ err' = [ err EXCEPT ![c] = "delete" ]
          /\ pc' = [ pc EXCEPT ![c] = "finally" ]
          /\ UNCHANGED fact
    /\ UNCHANGED <<files, raw, op, txn, pre, last>>

\* transform_earthquake(conn, start_date, end_date): the INSERT ... SELECT
\* and its commit, or an exception that leaves the rows uncommitted.
transform_earthquake(c) ==
    /\ pc[c] = "insert" /\ op[c].kind = "transform"
    /\ LET rows == SelectDerived(raw, op[c].s, op[c].e)
       IN \/ /\ fact' = fact (+) rows
             /\ UNCHANGED <<err, txn>>
          \/ /\ \E written \in { EmptyBag, rows } :
                    txn' = [ txn EXCEPT ![c] = written ]
             /\ err' = [ err EXCEPT ![c] = "insert" ]
             /\ UNCHANGED fact
    /\ pc' = [ pc EXCEPT ![c] = "finally" ]
    /\ UNCHANGED <<files, raw, op, pre, last>>

-----------------------------------------------------------------------------
(* Both main() functions: the finally block *)

\* close, were the work of the open transaction committed by conn.close().
close_Commits(c) ==
    /\ pc[c] = "finally"
    /\ pc' = [ pc EXCEPT ![c] = "idle" ]
    /\ txn' = [ txn EXCEPT ![c] = EmptyBag ]
    /\ last' = IF err[c] = "none"
               THEN Finished(op[c], "ok", <<>>)
               ELSE Finished(FailedOp(op[c].kind), "failed", <<>>)
    /\ op' = [ op EXCEPT ![c] = NoOp ]
    /\ err' = [ err EXCEPT ![c] = "none" ]
    /\ pre' = [ pre EXCEPT ![c] = EmptyBag ]
    /\ raw' = IF op[c].kind = "load" THEN raw (+) txn[c] ELSE raw
    /\ fact' = IF op[c].kind = "transform" THEN fact (+) txn[c] ELSE fact
    /\ UNCHANGED files

\* conn.close(): what was not committed is rolled back; the run is over.
close(c) ==
    /\ pc[c] = "finally"
    /\ pc' = [ pc EXCEPT ![c] = "idle" ]
    /\ txn' = [ txn EXCEPT ![c] = EmptyBag ]
    /\ last' = IF err[c] = "none"
               THEN Finished(op[c], "ok", <<>>)
               ELSE Finished(FailedOp(op[c].kind), "failed", <<>>)
    /\ op' = [ op EXCEPT ![c] = NoOp ]
    /\ err' = [ err EXCEPT ![c] = "none" ]
    /\ pre' = [ pre EXCEPT ![c] = EmptyBag ]
    /\ UNCHANGED <<files, raw, fact>>

-----------------------------------------------------------------------------
(* Specifications *)

\* The steps of one database run on connection c.
Load(c) ==
    \/ \E path \in Paths : load_connect(c, path)
    \/ load_delete_old_records(c)
    \/ load_csv_to_postgres(c)

Transform(c) ==
    \/ \E s \in Days, e \in Days : transform_connect(c, s, e)
    \/ transform_delete_old_records(c)
    \/ transform_earthquake(c)

\* The stages run one after the other, as the design requires of callers.
Next ==
    \/ Extract
    \/ Load(1)
    \/ Transform(1)
    \/ close(1)

Spec == Init /\ [][Next]_vars

\* Callers that do not serialise: the two connections run loads and
\* transforms at the same time, on the file an extraction has written.
InitConc ==
    /\ \E feature \in { f \in FeedItems : WellFormed(f) /\ f.properties.time = 1500 } :
          files = [ p \in Paths |->
                      ToCsv(DataFrame(<<Earthquake(feature, p)>>)) ]
    /\ raw = EmptyBag
    /\ fact = EmptyBag
    /\ Idle

NextConc ==
    \E c \in Conns :
        \/ Load(c)
        \/ Transform(c)
        \/ close(c)

SpecConc == InitConc /\ [][NextConc]_vars

\* A script that has connected runs on to the end of its main(): each
\* statement returns or raises, and the finally block is then executed.
Step(c) ==
    \/ load_delete_old_records(c)
    \/ load_csv_to_postgres(c)
    \/ transform_delete_old_records(c)
    \/ transform_earthquake(c)
    \/ close(c)

NextRuns ==
    \/ Load(1)
    \/ Transform(1)
    \/ close(1)

\* The database scripts run one after the other on the file an extraction
\* has written, each to the end of its main().
SpecRuns == InitConc /\ [][NextRuns]_vars /\ WF_vars(Step(1))

-----------------------------------------------------------------------------
(* Derivation of single rows: the transform run on a raw table of one row *)

\* Characters of the place texts explored: the token's letters, the space
\* and a tab.
Alphabet == { "o", "f", " ", "\t" }

DerivePlaces == SeqsUpTo(Alphabet, MaxLen)

\* Times on both sides of the epoch and of a day's end, in milliseconds.
DeriveTimes == { -86400000, -1000, -1, 0, 1500, 86399999, 86400000, 86400999 }

RawRow(time, place) ==
    [ time |-> time, place |-> place, magnitude |-> 4, longitude |-> 10,
      latitude |-> 20, depth |-> 30, filename |-> csv_file_path ]

DeriveInputs ==
    { RawRow(1500, p) : p \in DerivePlaces }
        \cup { RawRow(t, <<"o", "f", " ", "f">>) : t \in DeriveTimes }

InitDerive ==
    /\ files = [ p \in Paths |-> NoFile ]
    /\ raw \in { SetToBag({r}) : r \in DeriveInputs }
    /\ fact = EmptyBag
    /\ Idle

NextDerive ==
    \/ Transform(1)
    \/ close(1)

SpecDerive == InitDerive /\ [][NextDerive]_vars

-----------------------------------------------------------------------------
(* Vocabulary of the properties *)

\* The rows of raw table t that belong to batch key path.
RowsFor(t, path) ==
    BagFilter(t, { r \in DOMAIN t : r.filename = path })

\* The rows of fact table t whose eventDate lies in [s, e].
FactIn(t, s, e) ==
    BagFilter(t, { f \in DOMAIN t : s <= f.dt /\ f.dt <= e })

\* The raw rows of t whose derived date lies in [s, e].
RawIn(t, s, e) ==
    BagFilter(t, { r \in DOMAIN t : s <= DeriveRow(r).dt /\ DeriveRow(r).dt <= e })

\* A raw row written out as a data line of a batch file.
AsLine(r) ==
    <<r.time, r.place, r.magnitude, r.longitude, r.latitude, r.depth, r.filename>>

LinesOf(rows) == BagMap(rows, [ r \in DOMAIN rows |-> AsLine(r) ])

\* The derived images of a bag of raw rows.
ImageOf(rows) == BagMap(rows, [ r \in DOMAIN rows |-> DeriveRow(r) ])

\* A run of the given kind on connection c has reached its finally block.
Ended(c, kind) == pc[c] = "finally" /\ op[c].kind = kind

Succeeded(c, kind) == Ended(c, kind) /\ err[c] = "none"

\* The run before the one on connection c was the same operation and
\* completed, and nothing ran in between.
Repeated(c) == last = Finished(op[c], "ok", <<>>)

-----------------------------------------------------------------------------
(* Staging load *)

\* C1: when the bulk insert of a load fails after its delete succeeded, the
\* raw table is as it was before the call: the delete is not observable.
C1_LoadAtomic ==
    \A c \in Conns :
        (Ended(c, "load") /\ err[c] = "insert") => raw = pre[c]

\* C3: a load that repeats the load just completed, of the same file for the
\* same key, leaves as many rows for the key as the file has data rows, and
\* the raw table as the first load left it.
C3_IdempotentReload ==
    \A c \in Conns :
        (Succeeded(c, "load") /\ Repeated(c)) =>
            /\ BagCardinality(RowsFor(raw, op[c].path))
                 = Len(files[op[c].path].rows)
            /\ raw = pre[c]

C3_Witness ==
    \E c \in Conns :
        /\ Succeeded(c, "load") /\ Repeated(c)
        /\ Len(files[op[c].path].rows) = 2
        /\ RowsFor(raw, op[c].path) # raw

\* C6: when a load for a key completes, the rows of the key are exactly the
\* rows of the file just loaded, in number and in content, whatever rows
\* earlier loads of the key had left; and so it stays until the next run.
C6_NoStaleRows ==
    /\ \A c \in Conns :
        Succeeded(c, "load") =>
            LinesOf(RowsFor(raw, op[c].path))
                = SeqToBag(files[op[c].path].rows)
    /\ (last.kind = "load" /\ last.outcome = "ok"
          /\ \A c \in Conns : pc[c] = "idle") =>
            LinesOf(RowsFor(raw, last.path))
                = SeqToBag(files[last.path].rows)

\* An earlier load had left two rows for the key; the file now holds one
\* row, of another content.
C6_Witness ==
    \E c \in Conns :
        /\ Succeeded(c, "load")
        /\ BagCardinality(RowsFor(pre[c], op[c].path)) = 2
        /\ Len(files[op[c].path].rows) = 1
        /\ \A r \in DOMAIN RowsFor(pre[c], op[c].path) :
               r \notin DOMAIN RowsFor(raw, op[c].path)

-----------------------------------------------------------------------------
(* Window transform *)

\* C2: when the insert-select of a transform fails after its delete, the
\* fact table is as it was before the call.
C2_TransformAtomic ==
    \A c \in Conns :
        (Ended(c, "transform") /\ err[c] = "insert") => fact = pre[c]

\* C4: a transform that repeats the transform just completed, over the same
\* window, leaves the number of fact rows of the window unchanged and equal
\* to the number of raw rows whose derived date lies in the window.
C4_WindowedReplace ==
    \A c \in Conns :
        (Succeeded(c, "transform") /\ Repeated(c)) =>
            /\ BagCardinality(FactIn(fact, op[c].s, op[c].e))
                 = BagCardinality(FactIn(pre[c], op[c].s, op[c].e))
            /\ BagCardinality(FactIn(fact, op[c].s, op[c].e))
                 = BagCardinality(RawIn(raw, op[c].s, op[c].e))

C4_Witness ==
    \E c \in Conns :
        /\ Succeeded(c, "transform") /\ Repeated(c)
        /\ op[c].s = op[c].e
        /\ BagCardinality(FactIn(fact, op[c].s, op[c].e)) >= 2

\* C5: when a transform over [s, e] completes, the fact rows of the window
\* are exactly the derived images of the raw rows whose derived date lies in
\* the window, each as often as its raw rows occur, whatever earlier runs
\* had left in the window.
C5_WindowIsImage ==
    \A c \in Conns :
        Succeeded(c, "transform") =>
            FactIn(fact, op[c].s, op[c].e)
                = ImageOf(RawIn(raw, op[c].s, op[c].e))

\* The window held rows of an earlier transform that the raw table no
\* longer yields, and rows outside the window are present too.
C5_Witness ==
    \E c \in Conns :
        /\ Succeeded(c, "transform")
        /\ FactIn(pre[c], op[c].s, op[c].e) # EmptyBag
        /\ FactIn(fact, op[c].s, op[c].e) # EmptyBag
        /\ FactIn(pre[c], op[c].s, op[c].e) # FactIn(fact, op[c].s, op[c].e)
        /\ FactIn(fact, op[c].s, op[c].e) # fact

-----------------------------------------------------------------------------
(* Extraction *)

\* C10: a successful response with no features leaves a file made of the
\* header row of the seven column names and no data row, and a load of that
\* file that completes has inserted no row.
C10_EmptyFeed ==
    /\ (last.kind = "extract" /\ last.outcome = "written"
          /\ last.features = <<>>) =>
            /\ files[last.path].exists
            /\ files[last.path].header = Columns
            /\ files[last.path].rows = <<>>
    /\ \A c \in Conns :
        (Succeeded(c, "load") /\ files[op[c].path].rows = <<>>) =>
            RowsFor(raw, op[c].path) = EmptyBag

\* The data line the batch file is to hold for a feature written to path.
FeatureLine(feature, path) ==
    <<feature.properties.time, feature.properties.place, feature.properties.mag,
      feature.geometry.coordinates[1], feature.geometry.coordinates[2],
      feature.geometry.coordinates[3], path>>

\* The last run was an extraction that wrote its file.
Wrote == last.kind = "extract" /\ last.outcome = "written"

\* C11: a successful response with N well-formed features leaves a file of N
\* data lines, one per feature in feed order with the seven cells in the
\* fixed order (under the header of the seven names when N > 0), and a load
\* of that file into a raw table without rows of the key leaves N rows.
C11_RoundTrip ==
    /\ Wrote =>
        LET file == files[last.path]
        IN /\ file.exists
           /\ Len(file.rows) = Len(last.features)
           /\ \A i \in DOMAIN last.features :
                file.rows[i] = FeatureLine(last.features[i], last.path)
           /\ last.features # <<>> => file.header = Columns
    /\ \A c \in Conns :
        (/\ Succeeded(c, "load") /\ Wrote /\ last.path = op[c].path
         /\ RowsFor(pre[c], op[c].path) = EmptyBag) =>
            BagCardinality(RowsFor(raw, op[c].path)) = Len(last.features)

C11_Witness ==
    \E c \in Conns :
        /\ Succeeded(c, "load") /\ Wrote /\ last.path = op[c].path
        /\ RowsFor(pre[c], op[c].path) = EmptyBag
        /\ Len(last.features) = 2
        /\ last.features[1] # last.features[2]
        /\ BagCardinality(RowsFor(raw, op[c].path)) = 2

\* C12: whatever the path held before, after the write the file holds the
\* lines of the current fetch and no others: none of the lines it held
\* before remains unless the current fetch has it too.
C12_FullReplace ==
    Wrote =>
        LET new == { FeatureLine(last.features[i], last.path) :
                        i \in DOMAIN last.features }
        IN /\ Range(files[last.path].rows) = new
           /\ Len(files[last.path].rows) = Len(last.features)
           /\ \A line \in Range(last.prior.rows) :
                line \in Range(files[last.path].rows) => line \in new

\* The path held two lines; the fetch has one feature, of another content.
C12_Witness ==
    /\ Wrote
    /\ last.prior.exists
    /\ Len(last.prior.rows) = 2
    /\ Len(last.features) = 1
    /\ \A line \in Range(last.prior.rows) :
           line \notin Range(files[last.path].rows)

\* C13: an extraction whose response status is not 200 ends by raising to
\* its caller, and leaves every file as it was.
C13_FeedUnavailable ==
    [][ (/\ last'.kind = "extract" /\ last'.status # 200
         /\ (last' # last \/ files' # files)) =>
            (last'.outcome = "raised" /\ files' = files) ]_vars

\* C14: when the bulk insert of a load has failed, none of the lines of the
\* batch file is visible among the raw rows of the key, neither while the
\* connection is still open nor after it is closed: closing leaves the raw
\* table as it is and drops what the insert had written, so the rows of the
\* key are never a non-empty part of the batch.
C14_PartialInsertDiscarded ==
    [][ \A c \in Conns :
          /\ (pc'[c] = "finally" /\ op'[c].kind = "load" /\ err'[c] = "insert") =>
                \A line \in BagToSet(LinesOf(RowsFor(raw', op'[c].path))) :
                    line \notin Range(files'[op'[c].path].rows)
          /\ (Ended(c, "load") /\ err[c] = "insert" /\ pc'[c] = "idle") =>
                /\ raw' = raw
                /\ txn'[c] = EmptyBag
                /\ \A line \in BagToSet(LinesOf(RowsFor(raw', op[c].path))) :
                       line \notin Range(files'[op[c].path].rows)
      ]_vars

\* The insert failed after writing the first of the two lines of the file,
\* and the key had rows before the run.
C14_Witness ==
    \E c \in Conns :
        /\ Ended(c, "load") /\ err[c] = "insert"
        /\ Len(files[op[c].path].rows) = 2
        /\ BagCardinality(txn[c]) = 1
        /\ RowsFor(pre[c], op[c].path) # EmptyBag

-----------------------------------------------------------------------------
(* Callers that do not serialise, under SpecConc *)

\* The windows of two transforms have a day in common.
Overlap(o1, o2) == o1.s <= o2.e /\ o2.s <= o1.e /\ o1.s <= o1.e /\ o2.s <= o2.e

\* C15: a load or a transform during which no other connection was open
\* never ends with duplicates, whatever concurrent runs did before it: the
\* rows of the key are the lines of the file, once each, and the fact rows
\* of the window are the images of the raw rows of the window.  (That runs
\* which do overlap can end with duplicates is what C15_Witness reaches.)
C15_SerialNeverDuplicates ==
    \A c \in Conns :
        /\ (Succeeded(c, "load") /\ op[c].alone) =>
              LinesOf(RowsFor(raw, op[c].path))
                  = SeqToBag(files[op[c].path].rows)
        /\ (Succeeded(c, "transform") /\ op[c].alone) =>
              FactIn(fact, op[c].s, op[c].e)
                  = ImageOf(RawIn(raw, op[c].s, op[c].e))

\* Two loads of the same file have left each of its lines twice in the raw
\* table, and two transforms with overlapping windows, all of whose steps
\* succeeded, have left the images of the common days twice in the fact
\* table.
C15_Witness ==
    \E c \in Conns, d \in Conns :
        /\ c # d
        /\ Succeeded(c, "transform") /\ Succeeded(d, "transform")
        /\ ~op[c].alone /\ ~op[d].alone
        /\ Overlap(op[c], op[d])
        /\ LET lines == SeqToBag(files[csv_file_path].rows)
               s     == IF op[c].s >= op[d].s THEN op[c].s ELSE op[d].s
               e     == IF op[c].e <= op[d].e THEN op[c].e ELSE op[d].e
               image == ImageOf(RawIn(raw, s, e))
           IN /\ lines # EmptyBag
              /\ LinesOf(RowsFor(raw, csv_file_path)) = lines (+) lines
              /\ image # EmptyBag
              /\ FactIn(fact, s, e) = image (+) image

-----------------------------------------------------------------------------
(* The connection as a scoped resource, under SpecRuns *)

\* C16: a connection that has been opened is closed in the end, whether the
\* run succeeds, its delete fails or its insert fails; and a failed delete
\* is followed by the finally block alone: the insert is not executed and
\* no table changes.
C16_ConnectionReleased ==
    /\ \A c \in {1} :
          /\ (pc[c] # "idle") ~> (pc[c] = "idle")
          /\ (pc[c] = "finally" /\ err[c] = "none") ~> (pc[c] = "idle")
          /\ (pc[c] = "finally" /\ err[c] = "delete") ~> (pc[c] = "idle")
          /\ (pc[c] = "finally" /\ err[c] = "insert") ~> (pc[c] = "idle")
    /\ [][ \A c \in Conns :
             /\ err'[c] = "delete" => pc'[c] = "finally"
             /\ err[c] = "delete" =>
                  /\ pc'[c] \in { "finally", "idle" }
                  /\ raw' = raw /\ fact' = fact
                  /\ txn'[c] = EmptyBag
         ]_vars

\* The delete of a load has failed: the connection is still open, and the
\* rows the key had are all there.
C16_Witness ==
    \E c \in Conns :
        /\ Ended(c, "load") /\ err[c] = "delete"
        /\ raw = pre[c]
        /\ RowsFor(raw, op[c].path) # EmptyBag

-----------------------------------------------------------------------------
(* Key agreement between the writer and the loader *)

\* A load of path p is at its delete or its insert step.
Loading(c, p) ==
    /\ op[c].kind = "load" /\ op[c].path = p
    /\ pc[c] \in { "delete", "insert" }

\* C17: every data line of a file carries the path of the file in its last
\* cell; only a load of path p changes the raw rows whose filename is p; its
\* delete step removes those rows, all of them and no other row, and its
\* insert step adds rows of that filename only.  So what the delete of a
\* later load of p removes is what earlier loads of p inserted.
C17_KeyAgreement ==
    [][ /\ \A p \in Paths : \A i \in DOMAIN files'[p].rows :
              files'[p].rows[i][7] = p
        /\ \A p \in Paths :
              RowsFor(raw', p) # RowsFor(raw, p) =>
                  \E c \in Conns : Loading(c, p)
        /\ \A c \in Conns :
              (op[c].kind = "load" /\ pc[c] = "delete" /\ pc'[c] = "insert") =>
                  /\ raw (-) raw' = RowsFor(raw, op[c].path)
                  /\ raw' (-) raw = EmptyBag
                  /\ RowsFor(raw', op[c].path) = EmptyBag
        /\ \A c \in Conns :
              (op[c].kind = "load" /\ pc[c] = "insert") =>
                  /\ raw (-) raw' = EmptyBag
                  /\ RowsFor(raw' (-) raw, op[c].path) = raw' (-) raw
      ]_vars

\* The load before this one was of the same path and completed; the delete
\* of this one has removed the rows of the key, which were the lines of the
\* file, and has left the row of another key.
C17_Witness ==
    \E c \in Conns :
        /\ op[c].kind = "load" /\ pc[c] = "insert"
        /\ Repeated(c)
        /\ RowsFor(pre[c], op[c].path) # EmptyBag
        /\ LinesOf(RowsFor(pre[c], op[c].path)) = SeqToBag(files[op[c].path].rows)
        /\ raw = pre[c] (-) RowsFor(pre[c], op[c].path)
        /\ raw # EmptyBag

-----------------------------------------------------------------------------
(* Frame *)

\* The rows of raw table t of another key than path.
OtherKeys(t, path) == t (-) RowsFor(t, path)

\* The rows of fact table t outside the window [s, e].
Outside(t, s, e) == t (-) FactIn(t, s, e)

\* C18: no step of a load, from its connect to its close, whether it
\* succeeds or fails, changes the fact table or a raw row of another key;
\* no step of a transform changes the raw table or a fact row whose date is
\* outside its window.
C18_Frame ==
    [][ \A c \in Conns :
          /\ pc[c] = "idle" /\ pc'[c] # "idle" => raw' = raw /\ fact' = fact
          /\ (pc[c] # "idle" /\ op[c].kind = "load") =>
                /\ fact' = fact
                /\ OtherKeys(raw', op[c].path) = OtherKeys(raw, op[c].path)
          /\ (pc[c] # "idle" /\ op[c].kind = "transform") =>
                /\ raw' = raw
                /\ Outside(fact', op[c].s, op[c].e)
                     = Outside(fact, op[c].s, op[c].e)
      ]_vars

\* The insert of a transform has failed after its delete emptied the window:
\* the fact rows outside the window are those of before the run, and the
\* raw table holds rows.
C18_Witness ==
    \E c \in Conns :
        /\ Ended(c, "transform") /\ err[c] = "insert"
        /\ FactIn(pre[c], op[c].s, op[c].e) # EmptyBag
        /\ FactIn(fact, op[c].s, op[c].e) = EmptyBag
        /\ Outside(fact, op[c].s, op[c].e) # EmptyBag
        /\ Outside(fact, op[c].s, op[c].e) = Outside(pre[c], op[c].s, op[c].e)
        /\ raw # EmptyBag

-----------------------------------------------------------------------------
(* Recovery by running again *)

\* The run before the one under way failed: at its delete, leaving the
\* table as it was, or at its insert, leaving the delete committed and the
\* inserted rows rolled back.
AfterFailure == last.outcome = "failed"

\* C19: a load that completes after a failed run leaves, for its key, the
\* lines of the file, once each, and a transform that completes after a
\* failed run leaves, in its window, the images of the raw rows of the
\* window; this is so when the run has done its insert and still so when it
\* has closed its connection.
C19_RecoveryByRerun ==
    [][ \A c \in Conns :
          /\ (pc'[c] = "finally" /\ op'[c].kind = "load" /\ err'[c] = "none"
                /\ last'.outcome = "failed") =>
                LinesOf(RowsFor(raw', op'[c].path))
                    = SeqToBag(files'[op'[c].path].rows)
          /\ (pc'[c] = "finally" /\ op'[c].kind = "transform" /\ err'[c] = "none"
                /\ last'.outcome = "failed") =>
                FactIn(fact', op'[c].s, op'[c].e)
                    = ImageOf(RawIn(raw', op'[c].s, op'[c].e))
          /\ (Succeeded(c, "load") /\ AfterFailure /\ pc'[c] = "idle") =>
                LinesOf(RowsFor(raw', op[c].path))
                    = SeqToBag(files'[op[c].path].rows)
          /\ (Succeeded(c, "transform") /\ AfterFailure /\ pc'[c] = "idle") =>
                FactIn(fact', op[c].s, op[c].e)
                    = ImageOf(RawIn(raw', op[c].s, op[c].e))
      ]_vars

\* A load failed and left the key without rows although the file has two
\* lines; the load after it has completed and the key has the two lines.
C19_Witness ==
    \E c \in Conns :
        /\ Succeeded(c, "load") /\ AfterFailure /\ last.kind = "load"
        /\ RowsFor(pre[c], op[c].path) = EmptyBag
        /\ OtherKeys(pre[c], op[c].path) # EmptyBag
        /\ Len(files[op[c].path].rows) = 2
        /\ BagCardinality(RowsFor(raw, op[c].path)) = 2

-----------------------------------------------------------------------------
(* Field derivation, under SpecDerive: the raw table holds one row, so     *)
(* every fact row is derived from it                                       *)

HasToken(place) ==
    \E i \in 1..(Len(place) - 2) : SubSeq(place, i, i + 2) = OfToken

Occurrences(place) ==
    { i \in 1..(Len(place) - 2) : SubSeq(place, i, i + 2) = OfToken }

\* What follows the first "of " of a text that holds one.
RECURSIVE AfterFirstToken(_)
AfterFirstToken(place) ==
    IF Len(place) < 3 THEN <<>>
    ELSE IF SubSeq(place, 1, 3) = OfToken THEN SubSeq(place, 4, Len(place))
    ELSE AfterFirstToken(Tail(place))

RECURSIVE StripLeft(_, _)
StripLeft(s, chars) ==
    IF s # <<>> /\ Head(s) \in chars THEN StripLeft(Tail(s), chars) ELSE s

RECURSIVE StripRight(_, _)
StripRight(s, chars) ==
    IF s # <<>> /\ s[Len(s)] \in chars
    THEN StripRight(SubSeq(s, 1, Len(s) - 1), chars) ELSE s

Strip(s, chars) == StripRight(StripLeft(s, chars), chars)

Whitespace == { " ", "\t" }

\* C7: a raw place without the token "of " reaches the fact row unmodified.
C7_AbsentMarker ==
    \A r \in DOMAIN raw, f \in DOMAIN fact :
        ~HasToken(r.place) => f.place = r.place

\* C8 as stated: a raw place with the token "of " yields what follows its
\* first occurrence, with the surrounding whitespace trimmed.
C8_PlaceWhitespaceTrimmed ==
    \A r \in DOMAIN raw, f \in DOMAIN fact :
        HasToken(r.place) =>
            f.place = Strip(AfterFirstToken(r.place), Whitespace)

\* C8, amended: a raw place with the token "of " yields what follows its
\* first occurrence, with the leading and trailing space characters
\* removed; other whitespace, such as a tab, stays.
C8_PlaceDerivation ==
    \A r \in DOMAIN raw, f \in DOMAIN fact :
        HasToken(r.place) =>
            f.place = Strip(AfterFirstToken(r.place), { " " })

\* The token occurs twice, and what follows the first occurrence is kept.
C8_Witness ==
    \E r \in DOMAIN raw, f \in DOMAIN fact :
        /\ Cardinality(Occurrences(r.place)) = 2
        /\ f.place # <<>>

\* C9: the fact row's eventTimestamp is the second of the instant
\* time / 1000 s, its eventDate is the UTC day of that instant, and a
\* completed transform over [s, e] holds a row for the window exactly when
\* that day lies in [s, e].
C9_TimestampDerivation ==
    \A r \in DOMAIN raw :
        /\ \A f \in DOMAIN fact :
            /\ f.ts * 1000 <= r.time /\ r.time < f.ts * 1000 + 1000
            /\ f.dt = r.time \div 86400000
        /\ \A c \in Conns :
            Succeeded(c, "transform") =>
                (FactIn(fact, op[c].s, op[c].e) # EmptyBag
                    <=> (op[c].s <= r.time \div 86400000
                            /\ r.time \div 86400000 <= op[c].e))

=============================================================================
